---- MODULE Spec2Model ----
(***************************************************************************)
(* SPP impact-study monitor: the persistent seen-store (storage.py), the   *)
(* check run (main.py cmd_check / cmd_reset), the notification channels    *)
(* (notifier.py) and the page fetch with retries (scraper.py).             *)
(*                                                                         *)
(* Text is modelled as a sequence of one-character strings, so that the    *)
(* identity string of a study is really the concatenation the code builds. *)
(***************************************************************************)
EXTENDS Integers, Sequences, FiniteSets, TLC

VARIABLES
    file,         \* content of the storage file at storage_path
    data,         \* StudyStorage._data of the live instance
    alive,        \* TRUE while a StudyStorage instance exists in a running process
    clock,        \* datetime.now(timezone.utc), as a logical time
    exc,          \* the exception that left the last operation, "none" if it returned
    marked,       \* identities handed, since the last clear(), to a mark_seen call that returned:
                  \* cur by the live instance, old by instances of earlier processes;
                  \* wiped: the identities the last clear() removed, until the next write
    pc,           \* position of the command being run by the process
    cfg,          \* the AppConfig fields and the dry_run flag the run reads
    all_studies,  \* cmd_check: all_studies
    new_studies,  \* cmd_check: new_studies
    success,      \* cmd_check: success
    exit_code,    \* value returned by the command, read when pc = "done"
    did,          \* calls the current run has made so far
    events,       \* what the runs did to the outside so far: alerts delivered and resets
    url,          \* _fetch_page: url
    max_retries,  \* SPPScraper.max_retries
    attempt,      \* _fetch_page: the loop variable of range(max_retries)
    tries,        \* the outcome of each session.get call of the current _fetch_page call
    sleeps,       \* the arguments of the time.sleep calls of the current _fetch_page call
    fpc,          \* position inside _fetch_page
    fresult,      \* value returned by _fetch_page
    saving,       \* _save: how far it is, what the file held before it and what it writes
    year_type_ids, \* SPPScraper.year_type_ids, <<>> for None
    discovered,   \* fetch_all_studies: discovered, a dict as the sequence of its items
    year_types,   \* fetch_all_studies: year_types, a dict as the sequence of its items
    position,     \* fetch_all_studies: number of the item the loop over year_types is at
    scraped,      \* fetch_all_studies: all_studies
    calls,        \* the _fetch_page calls of the current fetch_all_studies call: url, page
                  \* returned, and the strategies that ran on the page
    spc,          \* position inside fetch_all_studies
    sms_body,     \* SMSNotifier.send: body
    runs,         \* two check runs on one storage file: position, _data, new_studies of each
    order         \* the loads and saves of the two runs, in the order they happened

storeVars == <<file, data, alive, clock, exc, marked>>
runVars == <<pc, cfg, all_studies, new_studies, success, exit_code, did, events>>
fetchVars == <<url, max_retries, attempt, tries, sleeps, fpc, fresult>>
scrapeVars == <<year_type_ids, discovered, year_types, position, scraped, calls, spc>>
smsVars == <<sms_body>>
raceVars == <<runs, order>>
vars == <<storeVars, runVars, fetchVars, saving, scrapeVars, smsVars, raceVars>>

----------------------------------------------------------------------------
(* Bounds of the model *)

MaxClock == 2          \* number of distinct timestamps / process runs
MaxFetch == 1          \* longest list fetch_all_studies returns to a check run
MaxBatch == 2          \* longest list handed to the storage API directly
MaxRetriesBound == 4   \* largest configured max_retries
MaxRecipients == 1     \* largest number of SMS recipients
MaxText == 2           \* longest name and url of the studies identities are compared on
MaxIndexLinks == 2     \* largest number of links on the index page
MaxSms == 5            \* longest list of studies handed to SMSNotifier.send
LongLen == 800         \* length of the long study name
MaxRaceFetch == 2      \* longest list a run of the two overlapping runs fetches

----------------------------------------------------------------------------
(* Study (scraper.py) *)

None == 0

Digits == <<"0", "1", "2", "3", "4", "5", "6", "7", "8", "9">>

\* str(int) for a non-negative integer, as the f-string formats year_type_id
RECURSIVE IntStr(_)
IntStr(n) ==
    IF n < 10 THEN <<Digits[n + 1]>>
    ELSE IntStr(n \div 10) \o <<Digits[(n % 10) + 1]>>

Study(name, u, ytid, label, details) ==
    [name |-> name, url |-> u, year_type_id |-> ytid,
     year_type_label |-> label, details |-> details]

\* UniqueId as it would be if the label were part of it
UniqueIdWithLabel(s) ==
    IntStr(s.year_type_id) \o <<":">> \o s.name \o <<":">> \o s.url \o s.year_type_label

\* f"{self.year_type_id}:{self.name}:{self.url}"
UniqueId(s) == IntStr(s.year_type_id) \o <<":">> \o s.name \o <<":">> \o s.url

ToDict(s) ==
    [name |-> s.name, url |-> s.url, year_type_id |-> s.year_type_id,
     year_type_label |-> s.year_type_label, details |-> s.details]

\* The studies the portal can show.  StudyA2 is StudyA with other details and
\* label; StudyB has a name that holds the separator; StudyC is in another category.
StudyA == Study(<<"a">>, <<"u">>, 1, <<"L">>, <<>>)
StudyA2 == Study(<<"a">>, <<"u">>, 1, <<"M">>, << <<"Status", "posted">> >>)
StudyB == Study(<<"a", ":", "b">>, <<"c">>, 1, <<"L">>, <<>>)
StudyC == Study(<<"a">>, <<"u">>, 12, <<"N">>, <<>>)

StudyPool == {StudyA, StudyA2, StudyB, StudyC}

\* StudyB2 is another study of StudyB's category: the separator is in its url
StudyB2 == Study(<<"a">>, <<"b", ":", "c">>, 1, <<"L">>, <<>>)

\* the studies handed to the storage API directly
StorePool == StudyPool \cup {StudyB2}

StudyListsUpTo(len) == UNION {[1..n -> StudyPool] : n \in 0..len}

\* the results of fetch_all_studies
FetchedLists == StudyListsUpTo(MaxFetch)

\* the arguments of direct storage calls
StudyLists == UNION {[1..n -> StorePool] : n \in 0..MaxBatch}

\* names and urls over a letter and the separator
Texts == UNION {[1..n -> {"a", ":"}] : n \in 1..MaxText}

\* two versions of label and details
Versions == {<< <<"L">>, <<>> >>, << <<"M">>, << <<"Status", "posted">> >> >>}

\* every study with such a name and url in one of two categories, in both versions
StudyUniverse ==
    {Study(n, u, y, v[1], v[2]) : n \in Texts, u \in Texts, y \in {1, 12}, v \in Versions}

\* the study s scraped again with another label and other details
Rescraped(s, v) == [s EXCEPT !.year_type_label = v[1], !.details = v[2]]

\* the fields unique_id is built from
Key(s) == <<s.year_type_id, s.name, s.url>>

Ids(studies) == {UniqueId(studies[i]) : i \in 1..Len(studies)}

----------------------------------------------------------------------------
(* StudyStorage (storage.py) *)

EmptyMap == [k \in {} |-> None]

\* {"seen": {}, "last_check": None}
EmptyState == [shape |-> "dict", hasSeen |-> TRUE, seen |-> EmptyMap, last_check |-> None]

\* A JSON document that is an object without a "seen" key: {}
NoSeenDoc == [shape |-> "dict", hasSeen |-> FALSE, seen |-> EmptyMap, last_check |-> None]

\* A JSON document that is not an object: []
ListDoc == [shape |-> "list", hasSeen |-> FALSE, seen |-> EmptyMap, last_check |-> None]

\* The file: absent, bytes json.load rejects ("garbage"; "partial" when a write
\* was cut short), or a JSON document.  doc is read only when kind = "json".
AbsentFile == [kind |-> "absent", doc |-> EmptyState]
GarbageFile == [kind |-> "garbage", doc |-> EmptyState]
PartialFile == [kind |-> "partial", doc |-> EmptyState]

\* json.dump(self._data, f, indent=2) into a file opened with "w"
Dump(d) == [kind |-> "json", doc |-> d]

InitFiles == {AbsentFile, GarbageFile, Dump(EmptyState), Dump(NoSeenDoc), Dump(ListDoc)}

\* Load as it would be if _load never read the file
LoadIgnoresFile(f) == [data |-> EmptyState, exc |-> "none"]

\* __init__ and _load: the _data the constructor leaves and the exception it raises.
\* json.load raises JSONDecodeError on garbage; the logger.info argument
\* len(self._data.get("seen", {})) raises AttributeError when the document is a list.
Load(f) ==
    IF f.kind = "absent" THEN [data |-> EmptyState, exc |-> "none"]
    ELSE IF f.kind # "json" THEN [data |-> EmptyState, exc |-> "none"]
    ELSE IF f.doc.shape # "dict" THEN [data |-> f.doc, exc |-> "AttributeError"]
    ELSE [data |-> f.doc, exc |-> "none"]

\* _save: writes the whole state, then the logger.debug argument
\* len(self._data["seen"]) raises KeyError when there is no "seen" key.
SaveExc(d) == IF d.hasSeen THEN "none" ELSE "KeyError"

\* is_new
IsNew(d, s) == UniqueId(s) \notin DOMAIN d.seen

\* self._data["seen"] raises KeyError without the key
IsNewExc(d) == IF d.hasSeen THEN "none" ELSE "KeyError"

\* FindNewStudies as it would be if it kept one study per identity
FindNewStudiesOncePerId(d, studies) ==
    SelectSeq(studies, LAMBDA s : IsNew(d, s) /\ s = CHOOSE t \in
        {studies[i] : i \in 1..Len(studies)} : UniqueId(t) = UniqueId(s))

\* find_new_studies
FindNewStudies(d, studies) == SelectSeq(studies, LAMBDA s : IsNew(d, s))

FindNewExc(d, studies) == IF studies = <<>> THEN "none" ELSE IsNewExc(d)

\* find_new_studies as a call: the list returned, the _data it leaves, whether
\* it wrote the file, and the exception
FindNew(d, studies) ==
    [ret |-> FindNewStudies(d, studies), data |-> d, wrote |-> FALSE,
     exc |-> FindNewExc(d, studies)]

\* is_new as a call
IsNewCalled(d, s) == [ret |-> IsNew(d, s), data |-> d, wrote |-> FALSE, exc |-> IsNewExc(d)]

\* Put as it would be if the assignment replaced the map: seen = {k: v}
PutReplaces(m, k, v) == [x \in {k} |-> v]

\* self._data["seen"][k] = v
Put(m, k, v) == [x \in (DOMAIN m) \cup {k} |-> IF x = k THEN v ELSE m[x]]

\* MarkAll as it would be if the loop stopped after the first study
MarkAllFirstOnly(seen, studies, now) ==
    IF studies = <<>> THEN seen
    ELSE Put(seen, UniqueId(Head(studies)),
             [first_seen |-> now, study |-> ToDict(Head(studies))])

\* the loop of mark_seen
RECURSIVE MarkAll(_, _, _)
MarkAll(seen, studies, now) ==
    IF studies = <<>> THEN seen
    ELSE MarkAll(Put(seen, UniqueId(Head(studies)),
                     [first_seen |-> now, study |-> ToDict(Head(studies))]),
                 Tail(studies), now)

\* MarkSeen as it would be without the _save call
MarkSeenUnsaved(d, studies, now) ==
    IF studies # <<>> /\ ~d.hasSeen
    THEN [data |-> d, wrote |-> FALSE, exc |-> "KeyError"]
    ELSE [data |-> [d EXCEPT !.seen = MarkAll(d.seen, studies, now), !.last_check = now],
          wrote |-> FALSE, exc |-> "none"]

\* mark_seen: the new _data, whether _save wrote the file, and the exception
MarkSeen(d, studies, now) ==
    IF studies # <<>> /\ ~d.hasSeen
    THEN [data |-> d, wrote |-> FALSE, exc |-> "KeyError"]
    ELSE LET d2 == [d EXCEPT !.seen = MarkAll(d.seen, studies, now), !.last_check = now]
         IN [data |-> d2, wrote |-> TRUE, exc |-> SaveExc(d2)]

\* UpdateLastCheck as it would be if it started again from the empty seen map
UpdateLastCheckForgets(d, now) ==
    LET d2 == [d EXCEPT !.seen = EmptyMap, !.last_check = now]
    IN [data |-> d2, wrote |-> TRUE, exc |-> SaveExc(d2)]

\* update_last_check
UpdateLastCheck(d, now) ==
    LET d2 == [d EXCEPT !.last_check = now]
    IN [data |-> d2, wrote |-> TRUE, exc |-> SaveExc(d2)]

\* Clear as it would be without the _save call
ClearInMemoryOnly(d) == [data |-> EmptyState, wrote |-> FALSE, exc |-> "none"]

\* clear
Clear(d) == [data |-> EmptyState, wrote |-> TRUE, exc |-> "none"]

\* the properties seen_count and last_check: self._data.get(...) reads _data and
\* raises nothing
Property(d) == [data |-> d, wrote |-> FALSE, exc |-> "none"]

SeenCount(d) == Cardinality(DOMAIN d.seen)
LastCheck(d) == d.last_check

\* the persisted seen map as the next load would see it
PersistedIds(f) == IF f.kind = "json" /\ f.doc.hasSeen THEN DOMAIN f.doc.seen ELSE {}

----------------------------------------------------------------------------
(* Initial values *)

NoneMarked == [cur |-> {}, old |-> {}, wiped |-> {}]

MarkedIds == marked.cur \cup marked.old

\* marked after a call that wrote the file again: the state a clear() left is gone
AfterWrite(r, m) == IF r.wrote THEN [m EXCEPT !.wiped = {}] ELSE m

\* marked after clear(): nothing is marked, and the identities the instance
\* held are remembered as wiped
AfterClear(d) == [NoneMarked EXCEPT !.wiped = marked.wiped \cup DOMAIN d.seen]

NoCfg == [command |-> "none", dry_run |-> FALSE, email_recipients |-> 0, smtp_username |-> FALSE,
          sms_recipients |-> 0, account_sid |-> FALSE]

InitStore ==
    /\ file \in InitFiles
    /\ data = EmptyState
    /\ alive = FALSE
    /\ clock = 1
    /\ exc = "none"
    /\ marked = NoneMarked

InitRun ==
    /\ pc = "idle"
    /\ cfg = NoCfg
    /\ all_studies = <<>>
    /\ new_studies = <<>>
    /\ success = TRUE
    /\ exit_code = 0
    /\ did = {}
    /\ events = {}

InitFetch ==
    /\ url = "index"
    /\ max_retries = 0
    /\ attempt = 0
    /\ tries = <<>>
    /\ sleeps = <<>>
    /\ fpc = "idle"
    /\ fresult = "unset"

NoSave == [phase |-> "none", before |-> AbsentFile, after |-> AbsentFile]

InitScrape ==
    /\ year_type_ids = <<>>
    /\ discovered = <<>>
    /\ year_types = <<>>
    /\ position = 0
    /\ scraped = <<>>
    /\ calls = <<>>
    /\ spc = "idle"

Runs == {1, 2}

RunIdle == [pc |-> "idle", data |-> EmptyState, new_studies |-> <<>>, alerted |-> {},
            marked |-> {}]

InitRace == runs = [r \in Runs |-> RunIdle] /\ order = <<>>

Init ==
    /\ InitStore /\ InitRun /\ InitFetch /\ saving = NoSave /\ InitScrape
    /\ sms_body = <<>>
    /\ InitRace

----------------------------------------------------------------------------
(* The storage API driven directly: one StudyStorage instance at a time *)

\* Written as it would be if _save kept the identities the file already holds
WrittenMerged(r) ==
    IF ~r.wrote THEN file
    ELSE LET kept == IF file.kind = "json" /\ file.doc.hasSeen THEN file.doc.seen ELSE EmptyMap
         IN Dump([r.data EXCEPT !.seen = [k \in (DOMAIN kept) \cup (DOMAIN @) |->
                                             IF k \in DOMAIN @ THEN @[k] ELSE kept[k]]])

\* the file after a call: _save writes the whole _data of the instance
Written(r) == IF r.wrote THEN Dump(r.data) ELSE file

Construct ==
    /\ ~alive
    /\ LET r == Load(file) IN
        /\ data' = r.data
        /\ exc' = r.exc
        /\ alive' = (r.exc = "none")
    /\ UNCHANGED <<file, clock, marked, runVars, fetchVars, scrapeVars, smsVars, raceVars, saving>>

FindNewCall(studies) ==
    /\ alive
    /\ LET r == FindNew(data, studies) IN
        /\ data' = r.data
        /\ file' = Written(r)
        /\ exc' = r.exc
    /\ UNCHANGED <<alive, clock, marked, runVars, fetchVars, scrapeVars, smsVars, raceVars, saving>>

IsNewCall(s) ==
    /\ alive
    /\ LET r == IsNewCalled(data, s) IN
        /\ data' = r.data
        /\ file' = Written(r)
        /\ exc' = r.exc
    /\ UNCHANGED <<alive, clock, marked, runVars, fetchVars, scrapeVars, smsVars, raceVars, saving>>

\* reading seen_count or last_check
PropertyRead ==
    /\ alive
    /\ LET r == Property(data) IN
        /\ data' = r.data
        /\ file' = Written(r)
        /\ exc' = r.exc
    /\ UNCHANGED <<alive, clock, marked, runVars, fetchVars, scrapeVars, smsVars, raceVars, saving>>

MarkSeenCall(studies) ==
    /\ alive
    /\ LET r == MarkSeen(data, studies, clock) IN
        /\ data' = r.data
        /\ file' = Written(r)
        /\ exc' = r.exc
        /\ marked' = AfterWrite(r, IF r.exc = "none"
                                    THEN [marked EXCEPT !.cur = @ \cup Ids(studies)]
                                    ELSE marked)
    /\ UNCHANGED <<alive, clock, runVars, fetchVars, scrapeVars, smsVars, raceVars, saving>>

UpdateLastCheckCall ==
    /\ alive
    /\ LET r == UpdateLastCheck(data, clock) IN
        /\ data' = r.data
        /\ file' = Written(r)
        /\ exc' = r.exc
        /\ marked' = AfterWrite(r, marked)
    /\ UNCHANGED <<alive, clock, runVars, fetchVars, scrapeVars, smsVars, raceVars, saving>>

ClearCall ==
    /\ alive
    /\ LET r == Clear(data) IN
        /\ data' = r.data
        /\ file' = Written(r)
        /\ exc' = r.exc
    /\ marked' = AfterClear(data)
    /\ UNCHANGED <<alive, clock, runVars, fetchVars, scrapeVars, smsVars, raceVars, saving>>

\* the process that holds the instance ends
Drop ==
    /\ alive
    /\ alive' = FALSE
    /\ exc' = "none"
    /\ marked' = [marked EXCEPT !.cur = {}, !.old = MarkedIds]
    /\ UNCHANGED <<file, data, clock, runVars, fetchVars, scrapeVars, smsVars, raceVars, saving>>

Tick ==
    /\ clock < MaxClock
    /\ clock' = clock + 1
    /\ UNCHANGED <<file, data, alive, exc, marked, runVars, fetchVars, scrapeVars, smsVars, raceVars, saving>>

NextStore ==
    \/ Construct
    \/ \E studies \in StudyLists : FindNewCall(studies)
    \/ \E s \in StorePool : IsNewCall(s)
    \/ PropertyRead
    \/ \E studies \in StudyLists : MarkSeenCall(studies)
    \/ UpdateLastCheckCall
    \/ ClearCall
    \/ Drop
    \/ Tick

SpecStore == Init /\ [][NextStore]_vars

----------------------------------------------------------------------------
(* The command line runs (main.py): check runs and resets, one process at a time *)

Configs ==
    [command : {"check"}, dry_run : BOOLEAN, email_recipients : 0..1, smtp_username : BOOLEAN,
     sms_recipients : 0..MaxRecipients, account_sid : BOOLEAN]

\* the run variables as a fresh process has them
FreshRun ==
    /\ all_studies' = <<>>
    /\ new_studies' = <<>>
    /\ success' = TRUE
    /\ exit_code' = 0
    /\ did' = {}

\* EmailNotifier.send's results: delivered, SMTPException caught (returns False),
\* or an OSError from the connection, which send does not catch
EmailOutcomes == {"sent", "smtp_error", "conn_error"}

\* studies[:3], the studies an SMS body for several studies names
FirstThree(studies) == SubSeq(studies, 1, IF Len(studies) < 3 THEN Len(studies) ELSE 3)

\* what a send call adds to the run's record: the channel's mark when the
\* notifier returned False
SendResult(channel, ok) == IF ok THEN {} ELSE {channel \o "_failed"}

\* return 0 if success else 2
ReturnCode(ok) == IF ok THEN 0 ELSE 2

Alert(channel, studies) == [run |-> clock, channel |-> channel, ids |-> Ids(studies)]

\* cmd_check up to the construction of the StudyStorage
CheckStart(c) ==
    /\ pc = "idle"
    /\ cfg' = c
    /\ FreshRun
    /\ LET r == Load(file) IN
        /\ data' = r.data
        /\ exc' = r.exc
        /\ alive' = (r.exc = "none")
        /\ pc' = IF r.exc = "none" THEN "fetch" ELSE "raised"
    /\ UNCHANGED <<file, clock, marked, events, fetchVars, scrapeVars, smsVars, raceVars, saving>>

\* cmd_check from fetch_all_studies to the dry-run return
CheckFetch(studies) ==
    /\ pc = "fetch"
    /\ all_studies' = studies
    /\ LET upd == UpdateLastCheck(data, clock)
           new == FindNewStudies(data, studies)
       IN IF studies = <<>>
          THEN /\ data' = upd.data
               /\ file' = Written(upd)
               /\ exc' = upd.exc
               /\ did' = did \cup {"fetch", "update_last_check"}
               /\ pc' = IF upd.exc = "none" THEN "done" ELSE "raised"
               /\ exit_code' = 1
               /\ UNCHANGED new_studies
          ELSE IF FindNewExc(data, studies) # "none"
          THEN /\ exc' = FindNewExc(data, studies)
               /\ pc' = "raised"
               /\ did' = did \cup {"fetch"}
               /\ UNCHANGED <<data, file, exit_code, new_studies>>
          ELSE IF new = <<>>
          THEN /\ data' = upd.data
               /\ file' = Written(upd)
               /\ exc' = upd.exc
               /\ did' = did \cup {"fetch", "update_last_check"}
               /\ pc' = IF upd.exc = "none" THEN "done" ELSE "raised"
               /\ exit_code' = 0
               /\ UNCHANGED new_studies
          ELSE /\ new_studies' = new
               /\ pc' = IF cfg.dry_run THEN "done" ELSE "email"
               /\ exit_code' = IF cfg.dry_run THEN 0 ELSE exit_code
               /\ did' = did \cup {"fetch"}
               /\ UNCHANGED <<data, file, exc>>
    /\ marked' = IF \/ studies = <<>>
                     \/ /\ FindNewExc(data, studies) = "none"
                        /\ FindNewStudies(data, studies) = <<>>
                  THEN AfterWrite(UpdateLastCheck(data, clock), marked)
                  ELSE marked
    /\ UNCHANGED <<alive, clock, cfg, success, events, fetchVars, scrapeVars, smsVars, raceVars, saving>>

\* Attempts as it would be if recipients were enough for a channel to be tried
AttemptsWithoutCredential(recipients, credential) == recipients > 0

\* "if config.email_recipients and config.smtp.username", and the same test of
\* sms_recipients and twilio.account_sid: the channel is tried
Attempts(recipients, credential) == recipients > 0 /\ credential

\* cmd_check: the email block, with EmailNotifier.send
CheckEmail(outcome) ==
    /\ pc = "email"
    /\ IF Attempts(cfg.email_recipients, cfg.smtp_username)
       THEN /\ did' = did \cup {"email"} \cup SendResult("email", outcome # "smtp_error")
            /\ events' = IF outcome = "sent"
                         THEN events \cup {Alert("email", new_studies)} ELSE events
            /\ success' = IF outcome = "smtp_error" THEN FALSE ELSE success
            /\ exc' = IF outcome = "conn_error" THEN "OSError" ELSE "none"
            /\ pc' = IF outcome = "conn_error" THEN "raised" ELSE "sms"
       ELSE /\ outcome = "sent"
            /\ pc' = "sms"
            /\ UNCHANGED <<did, events, success, exc>>
    /\ UNCHANGED <<file, data, alive, clock, marked, cfg, all_studies, new_studies,
                   exit_code, fetchVars, scrapeVars, smsVars, raceVars, saving>>

\* cmd_check: the SMS block, with SMSNotifier.send and _get_client.
\* available: the twilio package can be imported; sent: the recipients whose
\* messages.create call returned.
CheckSMS(available, sent) ==
    /\ pc = "sms"
    /\ IF Attempts(cfg.sms_recipients, cfg.account_sid)
       THEN /\ did' = did \cup {"sms"}
                        \cup SendResult("sms", ~available \/ sent = 1..cfg.sms_recipients)
            /\ sent \subseteq 1..cfg.sms_recipients
            /\ IF ~available
               THEN /\ sent = {}
                    /\ exc' = "ImportError"
                    /\ pc' = "raised"
                    /\ UNCHANGED <<events, success>>
               ELSE /\ events' = IF sent # {}
                                 THEN events \cup {Alert("sms", IF Len(new_studies) = 1
                                                                 THEN new_studies
                                                                 ELSE FirstThree(new_studies))}
                                 ELSE events
                    /\ success' = (success /\ sent = 1..cfg.sms_recipients)
                    /\ exc' = "none"
                    /\ pc' = "commit"
       ELSE /\ available
            /\ sent = {}
            /\ pc' = "commit"
            /\ UNCHANGED <<did, events, success, exc>>
    /\ UNCHANGED <<file, data, alive, clock, marked, cfg, all_studies, new_studies,
                   exit_code, fetchVars, scrapeVars, smsVars, raceVars, saving>>

\* cmd_check: mark_seen, the seen_count print and the return
CheckCommit ==
    /\ pc = "commit"
    /\ LET r == MarkSeen(data, new_studies, clock) IN
        /\ data' = r.data
        /\ file' = Written(r)
        /\ exc' = r.exc
        /\ marked' = AfterWrite(r, IF r.exc = "none"
                                    THEN [marked EXCEPT !.cur = @ \cup Ids(new_studies)]
                                    ELSE marked)
        /\ pc' = IF r.exc = "none" THEN "done" ELSE "raised"
    /\ did' = did \cup {"mark_seen"}
    /\ exit_code' = ReturnCode(success)
    /\ UNCHANGED <<alive, clock, cfg, all_studies, new_studies, success, events,
                   fetchVars, scrapeVars, smsVars, raceVars, saving>>

\* cmd_reset
Reset ==
    /\ pc = "idle"
    /\ cfg' = [NoCfg EXCEPT !.command = "reset"]
    /\ FreshRun
    /\ LET r == Load(file)
           c == Clear(r.data)
       IN IF r.exc # "none"
          THEN /\ data' = r.data
               /\ exc' = r.exc
               /\ alive' = FALSE
               /\ pc' = "raised"
               /\ UNCHANGED <<file, marked, events>>
          ELSE /\ data' = c.data
               /\ file' = Written(c)
               /\ exc' = c.exc
               /\ alive' = TRUE
               /\ pc' = "done"
               /\ marked' = AfterClear(r.data)
               /\ events' = events \cup {[run |-> clock, channel |-> "reset", ids |-> {}]}
    /\ UNCHANGED <<clock, fetchVars, scrapeVars, smsVars, raceVars, saving>>

\* the process ends (sys.exit or the traceback); the next one starts later
Exit ==
    /\ pc \in {"done", "raised"}
    /\ clock < MaxClock
    /\ pc' = "idle"
    /\ alive' = FALSE
    /\ clock' = clock + 1
    /\ exc' = "none"
    /\ cfg' = NoCfg
    /\ FreshRun
    /\ marked' = [marked EXCEPT !.cur = {}, !.old = MarkedIds]
    /\ UNCHANGED <<file, data, events, fetchVars, scrapeVars, smsVars, raceVars, saving>>

Next ==
    \/ \E c \in Configs : CheckStart(c)
    \/ \E studies \in FetchedLists : CheckFetch(studies)
    \/ \E outcome \in EmailOutcomes : CheckEmail(outcome)
    \/ \E available \in BOOLEAN, sent \in SUBSET (1..MaxRecipients) : CheckSMS(available, sent)
    \/ CheckCommit
    \/ Reset
    \/ Exit

Spec == Init /\ [][Next]_vars

----------------------------------------------------------------------------
(* SPPScraper._fetch_page (scraper.py): one session.get per step *)

\* the index page and the listing pages of two categories
Urls == {"index", "list1", "list12"}

\* response.text of a response that raise_for_status accepts
Pages == {"", "html1", "html2"}

\* LoopContinues as it would be for range(self.max_retries + 1)
LoopContinuesInclusive(a, m) == a <= m

\* range(self.max_retries) has another value
LoopContinues(a, m) == a < m

\* wait_time = 2 ** (attempt + 1)
WaitTime(a) == 2 ^ (a + 1)

\* SleepsAfter as it would be if the sleep followed every failed attempt
SleepsAfterEvery(a, m) == a < m

\* if attempt < self.max_retries - 1
SleepsAfter(a, m) == a < m - 1

\* the call: the loop is entered, or falls through to "return None"
FetchCall(u, m) ==
    /\ fpc = "idle"
    /\ url' = u
    /\ max_retries' = m
    /\ attempt' = 0
    /\ tries' = <<>>
    /\ sleeps' = <<>>
    /\ fpc' = IF LoopContinues(0, m) THEN "get" ELSE "returned"
    /\ fresult' = IF LoopContinues(0, m) THEN "unset" ELSE "None"
    /\ UNCHANGED <<storeVars, runVars, scrapeVars, smsVars, raceVars, saving>>

\* one iteration whose GET succeeds: return response.text
FetchGetOk(text) ==
    /\ fpc = "get"
    /\ tries' = Append(tries, text)
    /\ fresult' = text
    /\ fpc' = "returned"
    /\ UNCHANGED <<url, max_retries, attempt, sleeps, storeVars, runVars, scrapeVars, smsVars, raceVars, saving>>

\* one iteration whose GET raises requests.RequestException
FetchGetFail ==
    /\ fpc = "get"
    /\ tries' = Append(tries, "RequestException")
    /\ sleeps' = IF SleepsAfter(attempt, max_retries)
                 THEN Append(sleeps, WaitTime(attempt)) ELSE sleeps
    /\ attempt' = attempt + 1
    /\ fpc' = IF LoopContinues(attempt + 1, max_retries) THEN "get" ELSE "returned"
    /\ fresult' = IF LoopContinues(attempt + 1, max_retries) THEN "unset" ELSE "None"
    /\ UNCHANGED <<url, max_retries, storeVars, runVars, scrapeVars, smsVars, raceVars, saving>>

\* the caller takes the result; the scraper is ready for the next call
FetchDone ==
    /\ fpc = "returned"
    /\ fpc' = "idle"
    /\ UNCHANGED <<url, max_retries, attempt, tries, sleeps, fresult, storeVars,
                   runVars, scrapeVars, smsVars, raceVars, saving>>

NextFetch ==
    \/ \E u \in Urls, m \in 0..MaxRetriesBound : FetchCall(u, m)
    \/ \E text \in Pages : FetchGetOk(text)
    \/ FetchGetFail
    \/ FetchDone

SpecFetch == Init /\ [][NextFetch]_vars

----------------------------------------------------------------------------
(* StudyStorage with _save in its two steps, open(path, "w") and the write,
   and a process that can die at any point.  marked is not kept here. *)

\* a mutating call up to open(self.storage_path, "w"), which empties the file
BeginSave(r) ==
    /\ data' = r.data
    /\ IF r.wrote
       THEN /\ file' = PartialFile
            /\ saving' = [phase |-> "open", before |-> file, after |-> Dump(r.data)]
            /\ exc' = "none"
       ELSE /\ exc' = r.exc
            /\ saving' = NoSave
            /\ UNCHANGED file

Ready == alive /\ saving.phase # "open"

CrashConstruct ==
    /\ saving.phase # "open"
    /\ Construct

MarkSeenBegin(studies) ==
    /\ Ready
    /\ BeginSave(MarkSeen(data, studies, clock))
    /\ UNCHANGED <<alive, clock, marked, runVars, fetchVars, scrapeVars, smsVars, raceVars>>

UpdateLastCheckBegin ==
    /\ Ready
    /\ BeginSave(UpdateLastCheck(data, clock))
    /\ UNCHANGED <<alive, clock, marked, runVars, fetchVars, scrapeVars, smsVars, raceVars>>

ClearBegin ==
    /\ Ready
    /\ BeginSave(Clear(data))
    /\ UNCHANGED <<alive, clock, marked, runVars, fetchVars, scrapeVars, smsVars, raceVars>>

\* json.dump and the close of the file, then the logger.debug line
SaveFinish ==
    /\ alive
    /\ saving.phase = "open"
    /\ file' = saving.after
    /\ saving' = [saving EXCEPT !.phase = "closed"]
    /\ exc' = SaveExc(data)
    /\ UNCHANGED <<data, alive, clock, marked, runVars, fetchVars, scrapeVars, smsVars, raceVars>>

\* the process is killed (power loss, SIGKILL): memory is lost, the file stays
Crash ==
    /\ alive
    /\ alive' = FALSE
    /\ saving' = IF saving.phase = "open" THEN [saving EXCEPT !.phase = "crashed"] ELSE NoSave
    /\ exc' = "none"
    /\ UNCHANGED <<file, data, clock, marked, runVars, fetchVars, scrapeVars, smsVars, raceVars>>

CrashTick ==
    /\ saving.phase # "open"
    /\ Tick

NextCrash ==
    \/ CrashConstruct
    \/ \E studies \in FetchedLists : MarkSeenBegin(studies)
    \/ UpdateLastCheckBegin
    \/ ClearBegin
    \/ SaveFinish
    \/ Crash
    \/ CrashTick

SpecCrash == Init /\ [][NextCrash]_vars

----------------------------------------------------------------------------
(* Text as the scraper handles it (scraper.py): a text is a sequence of characters *)

\* pattern in text
Contains(text, pattern) ==
    \E i \in 1..(Len(text) - Len(pattern) + 1) :
        SubSeq(text, i, i + Len(pattern) - 1) = pattern

\* text.endswith(pattern)
EndsWith(text, pattern) ==
    /\ Len(pattern) <= Len(text)
    /\ SubSeq(text, Len(text) - Len(pattern) + 1, Len(text)) = pattern

\* the position of the first occurrence of pattern in text, 0 when there is none
Find(text, pattern) ==
    IF Contains(text, pattern)
    THEN CHOOSE i \in 1..Len(text) :
            /\ SubSeq(text, i, i + Len(pattern) - 1) = pattern
            /\ \A j \in 1..(i - 1) : SubSeq(text, j, j + Len(pattern) - 1) # pattern
    ELSE 0

\* text.split(pattern)[0] and text.split(pattern)[1]
SplitFirst(text, pattern) ==
    IF Find(text, pattern) = 0 THEN text ELSE SubSeq(text, 1, Find(text, pattern) - 1)

SplitSecond(text, pattern) ==
    SplitFirst(SubSeq(text, Find(text, pattern) + Len(pattern), Len(text)), pattern)

UpperCase ==
    <<"A", "B", "C", "D", "E", "F", "G", "H", "I", "J", "K", "L", "M",
      "N", "O", "P", "Q", "R", "S", "T", "U", "V", "W", "X", "Y", "Z">>

LowerCase ==
    <<"a", "b", "c", "d", "e", "f", "g", "h", "i", "j", "k", "l", "m",
      "n", "o", "p", "q", "r", "s", "t", "u", "v", "w", "x", "y", "z">>

\* text.lower()
Lower(text) ==
    [i \in 1..Len(text) |->
        IF \E k \in 1..26 : UpperCase[k] = text[i]
        THEN LowerCase[CHOOSE k \in 1..26 : UpperCase[k] = text[i]]
        ELSE text[i]]

\* get_text(strip=True) of an element with one piece of text
RECURSIVE LStrip(_)
LStrip(text) == IF text # <<>> /\ Head(text) = " " THEN LStrip(Tail(text)) ELSE text

RECURSIVE RStrip(_)
RStrip(text) ==
    IF text # <<>> /\ text[Len(text)] = " " THEN RStrip(SubSeq(text, 1, Len(text) - 1)) ELSE text

Strip(text) == RStrip(LStrip(text))

IsDigits(text) == text # <<>> /\ \A i \in 1..Len(text) : \E k \in 1..10 : Digits[k] = text[i]

\* int(text) for a text of digits
RECURSIVE StrInt(_)
StrInt(text) ==
    IF text = <<>> THEN 0
    ELSE 10 * StrInt(SubSeq(text, 1, Len(text) - 1))
         + (CHOOSE k \in 0..9 : Digits[k + 1] = text[Len(text)])

\* the words the scraper looks for
StudyWord == <<"s", "t", "u", "d", "y">>
GenDash == <<"g", "e", "n", "-">>
DisisWord == <<"d", "i", "s", "i", "s">>
DotPdf == <<".", "p", "d", "f">>
DocumentsPath == <<"/", "d", "o", "c", "u", "m", "e", "n", "t", "s", "/">>
GenListWord == <<"G", "e", "n", "L", "i", "s", "t">>
YearTypeIdEq == <<"y", "e", "a", "r", "T", "y", "p", "e", "I", "d", "=">>

\* BASE_URL, STUDIES_INDEX_URL and STUDY_LIST_URL
BASE_URL ==
    <<"h", "t", "t", "p", "s", ":", "/", "/", "o", "p", "s", "p", "o", "r", "t", "a", "l",
      ".", "s", "p", "p", ".", "o", "r", "g">>
STUDIES_INDEX_URL == BASE_URL \o <<"/", "S", "t", "u", "d", "i", "e", "s", "/", "G", "e", "n">>
STUDY_LIST_URL == STUDIES_INDEX_URL \o <<"L", "i", "s", "t">>

\* f"{STUDY_LIST_URL}?yearTypeId={year_type_id}"
ListUrl(ytid) == STUDY_LIST_URL \o <<"?">> \o YearTypeIdEq \o IntStr(ytid)

\* an href that names its own scheme: letters, then ':' before any '/'
HasScheme(href) ==
    /\ Find(href, <<":">>) > 1
    /\ \A i \in 1..(Find(href, <<":">>) - 1) :
        \E k \in 1..26 : href[i] \in {UpperCase[k], LowerCase[k]}

\* urljoin(BASE_URL, href) for an href without dot segments: an href with a
\* scheme stays, an absolute path follows the host, anything else follows "/"
Urljoin(href) ==
    IF href = <<>> THEN BASE_URL
    ELSE IF HasScheme(href) THEN href
    ELSE IF Len(href) >= 2 /\ SubSeq(href, 1, 2) = <<"/", "/">>
    THEN <<"h", "t", "t", "p", "s", ":">> \o href
    ELSE IF Head(href) \in {"/", "?", "#"} THEN BASE_URL \o href
    ELSE BASE_URL \o <<"/">> \o href

----------------------------------------------------------------------------
(* Pages as BeautifulSoup shows them to the scraper *)

\* What _fetch_page returned: None, the empty text, or a document.  The body of
\* a document is the sequence of its links and tables; a table is a sequence
\* of rows, a row a sequence of th/td cells; a cell holds a text, and an href
\* when the text is a link.
NoPage == [kind |-> "none", body |-> <<>>]
EmptyPage == [kind |-> "empty", body |-> <<>>]
Html(body) == [kind |-> "html", body |-> body]

Link(href, text) == [tag |-> "a", href |-> href, text |-> text, rows |-> <<>>]
Table(rows) == [tag |-> "table", href |-> <<>>, text |-> <<>>, rows |-> rows]
Cell(tag, text, href) == [tag |-> tag, text |-> text, href |-> href]

\* "if not html"
Falsy(html) == html.kind \in {"none", "empty"}

\* the a[href] elements of a row, of a table and of a document, in document order
RowLinks(row) ==
    LET linked == SelectSeq(row, LAMBDA c : c.href # <<>>)
    IN [i \in 1..Len(linked) |-> Link(linked[i].href, linked[i].text)]

RECURSIVE TableLinks(_)
TableLinks(rows) ==
    IF rows = <<>> THEN <<>> ELSE RowLinks(Head(rows)) \o TableLinks(Tail(rows))

\* soup.find_all("a", href=True)
RECURSIVE AllLinks(_)
AllLinks(body) ==
    IF body = <<>> THEN <<>>
    ELSE (IF Head(body).tag = "a" THEN <<Head(body)>> ELSE TableLinks(Head(body).rows))
         \o AllLinks(Tail(body))

\* soup.find_all("table")
AllTables(body) == SelectSeq(body, LAMBDA e : e.tag = "table")

\* d[k] = v on a dict kept as the sequence of its items
DictSet(d, k, v) ==
    IF \E i \in 1..Len(d) : d[i][1] = k
    THEN [i \in 1..Len(d) |-> IF d[i][1] = k THEN <<k, v>> ELSE d[i]]
    ELSE Append(d, <<k, v>>)

DictKeys(d) == {d[i][1] : i \in 1..Len(d)}

DictGet(d, k) == d[CHOOSE i \in 1..Len(d) : d[i][1] = k][2]

\* discover_year_types: the loop over the links of the index page.  int() of
\* anything but digits is taken to raise ValueError.
RECURSIVE YearTypesOf(_, _)
YearTypesOf(links, found) ==
    IF links = <<>> THEN found
    ELSE LET href == Head(links).href
             idtext == SplitFirst(SplitSecond(href, YearTypeIdEq), <<"&">>)
             label == Strip(Head(links).text)
         IN YearTypesOf(Tail(links),
                IF /\ Contains(href, GenListWord)
                   /\ Contains(href, YearTypeIdEq)
                   /\ IsDigits(idtext)
                   /\ label # <<>>
                THEN DictSet(found, StrInt(idtext), label)
                ELSE found)

\* discover_year_types, given what _fetch_page returned for the index page
DiscoverYearTypes(html) == IF Falsy(html) THEN <<>> ELSE YearTypesOf(AllLinks(html.body), <<>>)

----------------------------------------------------------------------------
(* fetch_studies_for_year_type (scraper.py): the two strategies *)

\* a row with a th cell sets the headers: row.find("th")
IsHeaderRow(row) == \E i \in 1..Len(row) : row[i].tag = "th"

\* headers[i] if i < len(headers) else f"col_{i}", i counting from 0
ColumnKey(headers, i) ==
    IF i <= Len(headers) THEN headers[i] ELSE <<"c", "o", "l", "_">> \o IntStr(i - 1)

\* row_data: the loop over the cells from cell number i on
RECURSIVE RowData(_, _, _, _)
RowData(row, headers, i, row_data) ==
    IF i > Len(row) THEN row_data
    ELSE LET key == ColumnKey(headers, i)
             with_text == DictSet(row_data, key, Strip(row[i].text))
         IN RowData(row, headers, i + 1,
                IF row[i].href # <<>>
                THEN DictSet(with_text, key \o <<"_", "u", "r", "l">>, Urljoin(row[i].href))
                ELSE with_text)

\* the studies one row without th cells appends: none or one
RowStudies(row, headers, ytid, label) ==
    IF row = <<>> \/ Strip(row[1].text) = <<>> THEN <<>>
    ELSE <<Study(Strip(row[1].text),
                 IF row[1].href # <<>> THEN Urljoin(row[1].href) ELSE ListUrl(ytid),
                 ytid, label, RowData(row, headers, 1, <<>>))>>

\* the loop over the rows of one table
RECURSIVE TableStudies(_, _, _, _)
TableStudies(rows, headers, ytid, label) ==
    IF rows = <<>> THEN <<>>
    ELSE IF IsHeaderRow(Head(rows))
    THEN TableStudies(Tail(rows),
                      [i \in 1..Len(Head(rows)) |-> Strip(Head(rows)[i].text)], ytid, label)
    ELSE RowStudies(Head(rows), headers, ytid, label)
         \o TableStudies(Tail(rows), headers, ytid, label)

\* Strategy 1: the loop over the tables
RECURSIVE TabularStudies(_, _, _)
TabularStudies(tables, ytid, label) ==
    IF tables = <<>> THEN <<>>
    ELSE TableStudies(Head(tables).rows, <<>>, ytid, label)
         \o TabularStudies(Tail(tables), ytid, label)

\* IsStudyLink as it would be if only the text of the link counted
IsStudyLinkByText(href, text) ==
    /\ text # <<>>
    /\ \/ Contains(Lower(text), StudyWord)
       \/ Contains(Lower(text), GenDash)
       \/ Contains(Lower(text), DisisWord)

\* the test of Strategy 2 on one link
IsStudyLink(href, text) ==
    /\ text # <<>>
    /\ \/ Contains(Lower(text), StudyWord)
       \/ Contains(Lower(text), GenDash)
       \/ Contains(Lower(text), DisisWord)
       \/ EndsWith(href, DotPdf)
       \/ Contains(href, DocumentsPath)

\* Strategy 2: the loop over the links
RECURSIVE LinkStudies(_, _, _)
LinkStudies(links, ytid, label) ==
    IF links = <<>> THEN <<>>
    ELSE (IF IsStudyLink(Head(links).href, Strip(Head(links).text))
          THEN <<Study(Strip(Head(links).text), Urljoin(Head(links).href), ytid, label, <<>>)>>
          ELSE <<>>)
         \o LinkStudies(Tail(links), ytid, label)

\* RunsStrategy2 as it would be if Strategy 2 ran on every page
RunsStrategy2Always(studies) == TRUE

\* "if not studies"
RunsStrategy2(studies) == studies = <<>>

\* fetch_studies_for_year_type, given what _fetch_page returned for the listing
\* page: the list returned and the strategies that ran
FetchStudiesForYearType(html, ytid, label) ==
    IF Falsy(html) THEN [studies |-> <<>>, strategies |-> {}]
    ELSE LET tabular == TabularStudies(AllTables(html.body), ytid, label)
         IN IF RunsStrategy2(tabular)
            THEN [studies |-> tabular \o LinkStudies(AllLinks(html.body), ytid, label),
                  strategies |-> {1, 2}]
            ELSE [studies |-> tabular, strategies |-> {1}]

----------------------------------------------------------------------------
(* fetch_all_studies (scraper.py): one _fetch_page call per step, the call
   being taken by what it returns *)

\* year_type_ids of the configuration; <<>> stands for "not configured"
ConfiguredIds == {<<>>, <<1>>, <<12>>, <<1, 12>>, <<12, 1>>, <<1, 1>>, <<7>>}

GenListHref(idtext, rest) == <<"/">> \o GenListWord \o <<"?">> \o YearTypeIdEq \o idtext \o rest

\* The links an index page can hold: categories 1 and 12, category 1 under
\* another label, an id that is no number, a link without text, and a link
\* with a yearTypeId that is not to GenList
IndexLinks ==
    {Link(GenListHref(<<"1">>, <<>>), <<"D", "I", "S", "I", "S">>),
     Link(GenListHref(<<"1", "2">>, <<"&", "p", "=", "1">>), <<" ", "N", " ">>),
     Link(GenListHref(<<"1">>, <<>>), <<"M">>),
     Link(GenListHref(<<"x">>, <<>>), <<"X">>),
     Link(GenListHref(<<"1", "2">>, <<>>), <<" ">>),
     Link(<<"/", "G", "e", "n", "?">> \o YearTypeIdEq \o <<"7">>, <<"Q">>)}

\* what _fetch_page can return for the index page
IndexResults ==
    {NoPage, EmptyPage} \cup {Html(b) : b \in UNION {[1..n -> IndexLinks] : n \in 0..MaxIndexLinks}}

\* a table with a header row and one study row, and a link outside the table
PageTable ==
    Html(<<Table(<< <<Cell("th", <<"N", "a", "m", "e">>, <<>>), Cell("th", <<"S", "t">>, <<>>)>>,
                    <<Cell("td", <<"G", "E", "N", "-", "1">>, <<"/", "s", "/", "1">>),
                      Cell("td", <<"o", "k">>, <<>>)>> >>),
           Link(<<"/", "a", ".", "p", "d", "f">>, <<"M", "a", "p">>)>>)

\* no table: a link the heuristics take by its text, one they take by the end
\* of its href, one they leave, one without text, and one they take by the
\* path in its href
PageLinks ==
    Html(<<Link(<<"/", "d", "/", "1">>, <<"D", "I", "S", "I", "S">>),
           Link(<<"/", "a", ".", "p", "d", "f">>, <<"M", "a", "p">>),
           Link(<<"/", "h">>, <<"H", "o", "m", "e">>),
           Link(<<"/", "b", ".", "p", "d", "f">>, <<" ">>),
           Link(DocumentsPath \o <<"x">>, <<"X">>)>>)

\* a table none of whose rows gives a study, with a link in a cell
PageSkipped ==
    Html(<<Table(<< <<Cell("th", <<"N", "a", "m", "e">>, <<>>)>>,
                    <<>>,
                    <<Cell("td", <<" ">>, <<>>),
                      Cell("td", <<"M", "a", "p">>, <<"/", "a", ".", "p", "d", "f">>)>> >>)>>)

\* a table without header row: two rows with the same text and no link
PageNoHeader ==
    Html(<<Table(<< <<Cell("td", <<"s", "1">>, <<>>)>>, <<Cell("td", <<"s", "1">>, <<>>)>> >>)>>)

\* a table whose header row comes again, with other names, before its last row
PageTwoHeaders ==
    Html(<<Table(<< <<Cell("th", <<"N", "a", "m", "e">>, <<>>), Cell("th", <<"S", "t">>, <<>>)>>,
                    <<Cell("td", <<"G", "1">>, <<>>), Cell("td", <<"o", "k">>, <<>>)>>,
                    <<Cell("th", <<"I", "d">>, <<>>), Cell("th", <<"B", "y">>, <<>>)>>,
                    <<Cell("td", <<"G", "2">>, <<>>), Cell("td", <<"m", "e">>, <<>>)>> >>)>>)

\* a document without tables and links
PagePlain == Html(<<>>)

\* what _fetch_page can return for a listing page
ListingResults ==
    {NoPage, EmptyPage, PageTable, PageLinks, PageSkipped, PageNoHeader, PageTwoHeaders, PagePlain}

\* f"YearType {ytid}"
DefaultLabel(ytid) == <<"Y", "e", "a", "r", "T", "y", "p", "e", " ">> \o IntStr(ytid)

\* {ytid: f"YearType {ytid}" for ytid in self.year_type_ids}
RECURSIVE DefaultLabels(_, _)
DefaultLabels(ids, d) ==
    IF ids = <<>> THEN d ELSE DefaultLabels(Tail(ids), DictSet(d, Head(ids), DefaultLabel(Head(ids))))

\* the loop "for ytid in self.year_type_ids: if ytid in discovered: ..."
RECURSIVE Relabel(_, _, _)
Relabel(ids, found, d) ==
    IF ids = <<>> THEN d
    ELSE Relabel(Tail(ids), found,
                 IF Head(ids) \in DictKeys(found)
                 THEN DictSet(d, Head(ids), DictGet(found, Head(ids))) ELSE d)

\* YearTypes as it would be if the discovered categories were added to the
\* configured ones
YearTypesMerged(ids, found) ==
    IF ids # <<>> THEN found \o SelectSeq(DefaultLabels(ids, <<>>),
                                         LAMBDA e : e[1] \notin DictKeys(found))
    ELSE found

\* year_types of fetch_all_studies, from the configured ids and the result of
\* discover_year_types
YearTypes(ids, found) ==
    IF ids # <<>> THEN Relabel(ids, found, DefaultLabels(ids, <<>>)) ELSE found

\* LoopPosition as it would be if a failed fetch ended the loop
LoopPositionStopsOnFailure(html, pos, n) ==
    IF pos = n \/ Falsy(html) THEN "returned" ELSE "loop"

\* the loop over year_types.items() goes on to the next item or ends
LoopPosition(html, pos, n) == IF pos = n THEN "returned" ELSE "loop"

\* the call, up to the call of discover_year_types
FetchAllCall(ids) ==
    /\ spc = "idle"
    /\ year_type_ids' = ids
    /\ year_types' = IF ids # <<>> THEN DefaultLabels(ids, <<>>) ELSE <<>>
    /\ discovered' = <<>>
    /\ position' = 0
    /\ scraped' = <<>>
    /\ calls' = <<>>
    /\ spc' = "discover"
    /\ UNCHANGED <<storeVars, runVars, fetchVars, saving, smsVars, raceVars>>

\* discover_year_types with the page _fetch_page returned for the index, the
\* labels, and the return of [] when there is no category
FetchAllDiscover(html) ==
    /\ spc = "discover"
    /\ calls' = Append(calls, [url |-> STUDIES_INDEX_URL, html |-> html, strategies |-> {}])
    /\ discovered' = DiscoverYearTypes(html)
    /\ year_types' = YearTypes(year_type_ids, DiscoverYearTypes(html))
    /\ IF YearTypes(year_type_ids, DiscoverYearTypes(html)) = <<>>
       THEN spc' = "returned" /\ position' = 0
       ELSE spc' = "loop" /\ position' = 1
    /\ UNCHANGED <<year_type_ids, scraped, storeVars, runVars, fetchVars, saving, smsVars, raceVars>>

\* one round of the loop: fetch_studies_for_year_type with the page
\* _fetch_page returned for the listing, and all_studies.extend
FetchAllCategory(html) ==
    /\ spc = "loop"
    /\ LET item == year_types[position]
           r == FetchStudiesForYearType(html, item[1], item[2])
       IN /\ scraped' = scraped \o r.studies
          /\ calls' = Append(calls, [url |-> ListUrl(item[1]), html |-> html,
                                     strategies |-> r.strategies])
    /\ spc' = LoopPosition(html, position, Len(year_types))
    /\ position' = IF position = Len(year_types) THEN position ELSE position + 1
    /\ UNCHANGED <<year_type_ids, discovered, year_types, storeVars, runVars, fetchVars, saving, smsVars, raceVars>>

\* the caller has the list; the scraper can be called again
FetchAllReturn ==
    /\ spc = "returned"
    /\ year_type_ids' = <<>>
    /\ discovered' = <<>>
    /\ year_types' = <<>>
    /\ position' = 0
    /\ scraped' = <<>>
    /\ calls' = <<>>
    /\ spc' = "idle"
    /\ UNCHANGED <<storeVars, runVars, fetchVars, saving, smsVars, raceVars>>

NextScrape ==
    \/ \E ids \in ConfiguredIds : FetchAllCall(ids)
    \/ \E html \in IndexResults : FetchAllDiscover(html)
    \/ \E html \in ListingResults : FetchAllCategory(html)
    \/ FetchAllReturn

SpecScrape == Init /\ [][NextScrape]_vars

----------------------------------------------------------------------------
(* SMSNotifier.send (notifier.py): the body of the message *)

\* the SMS limit and the number of characters kept in front of "..."
SmsLimit == 1600
SmsKept == 1597

\* the fixed parts of the two f-strings
OnePosted ==
    <<"S", "P", "P", " ", "A", "l", "e", "r", "t", ":", " ", "N", "e", "w", " ", "i",
      "m", "p", "a", "c", "t", " ", "s", "t", "u", "d", "y", " ", "p", "o", "s", "t",
      "e", "d", " ", "-", " ">>
OneCategory ==
    <<".", " ", "C", "a", "t", "e", "g", "o", "r", "y", ":", " ">>
OneView ==
    <<".", " ", "V", "i", "e", "w", ":", " ">>
ManyAlert ==
    <<"S", "P", "P", " ", "A", "l", "e", "r", "t", ":", " ">>
ManyPosted ==
    <<" ", "n", "e", "w", " ", "i", "m", "p", "a", "c", "t", " ", "s", "t", "u", "d",
      "i", "e", "s", " ", "p", "o", "s", "t", "e", "d", ":", " ">>
ManyViewAll ==
    <<".", " ", "V", "i", "e", "w", " ", "a", "l", "l", ":", " ", "h", "t", "t", "p",
      "s", ":", "/", "/", "o", "p", "s", "p", "o", "r", "t", "a", "l", ".", "s", "p",
      "p", ".", "o", "r", "g", "/", "S", "t", "u", "d", "i", "e", "s", "/", "G", "e",
      "n">>

\* ", ".join(names)
RECURSIVE JoinNames(_)
JoinNames(studies) ==
    IF studies = <<>> THEN <<>>
    ELSE IF Len(studies) = 1 THEN Head(studies).name
    ELSE Head(studies).name \o <<",", " ">> \o JoinNames(Tail(studies))

\* f" (+{len(studies) - 3} more)" if len(studies) > 3 else ""
Extra(n) ==
    IF n > 3 THEN <<" ", "(", "+">> \o IntStr(n - 3) \o <<" ", "m", "o", "r", "e", ")">>
    ELSE <<>>

\* body before the cut, for a list that is not empty
FullBody(studies) ==
    IF Len(studies) = 1
    THEN OnePosted \o studies[1].name \o OneCategory \o studies[1].year_type_label
         \o OneView \o studies[1].url
    ELSE ManyAlert \o IntStr(Len(studies)) \o ManyPosted \o JoinNames(FirstThree(studies))
         \o Extra(Len(studies)) \o ManyViewAll

\* Truncate as it would be if the cut kept SmsLimit characters
TruncateAtLimit(text) ==
    IF Len(text) > SmsLimit THEN SubSeq(text, 1, SmsLimit) \o <<".", ".", ".">> ELSE text

\* if len(body) > 1600: body = body[:1597] + "..."
Truncate(text) ==
    IF Len(text) > SmsLimit THEN SubSeq(text, 1, SmsKept) \o <<".", ".", ".">> ELSE text

SmsBody(studies) == Truncate(FullBody(studies))

\* the names a study handed to send can have: short ones, a long one, and one
\* that fills a message on its own
LongName == [i \in 1..LongLen |-> "x"]
SmsNames == {<<"a">>, <<"b", "c">>, LongName, LongName \o LongName}

SmsLists == UNION {[1..n -> {Study(name, <<"u">>, 1, <<"L">>, <<>>) : name \in SmsNames}] :
                      n \in 1..MaxSms}

\* send, from the test of studies to the cut of body
SmsBuild(studies) ==
    /\ sms_body = <<>>
    /\ new_studies' = studies
    /\ sms_body' = SmsBody(studies)
    /\ UNCHANGED <<storeVars, pc, cfg, all_studies, success, exit_code, did, events,
                   fetchVars, saving, scrapeVars, raceVars>>

NextSms == \E studies \in SmsLists : SmsBuild(studies)

SpecSms == Init /\ [][NextSms]_vars

----------------------------------------------------------------------------
(* Two runs of cmd_check on one storage file (main.py, storage.py).  Each run
   is a process of its own with its own StudyStorage instance; nothing locks
   the file.  Both are real runs with an alert channel configured. *)

RaceLists == UNION {[1..n -> {StudyA, StudyB}] : n \in 0..MaxRaceFetch}

Loaded(r) == <<r, "load">>
Saved(r) == <<r, "save">>

\* order after a storage call of run r with result res
AfterCall(r, res) == IF res.wrote THEN Append(order, Saved(r)) ELSE order

\* StudyStorage(...): the run reads the file into its own _data
RaceStart(r) ==
    /\ runs[r].pc = "idle"
    /\ LET l == Load(file) IN
        runs' = [runs EXCEPT ![r].data = l.data,
                             ![r].pc = IF l.exc = "none" THEN "fetch" ELSE "raised"]
    /\ order' = Append(order, Loaded(r))
    /\ UNCHANGED <<storeVars, runVars, fetchVars, saving, scrapeVars, smsVars>>

\* fetch_all_studies, find_new_studies and the two early returns
RaceFetch(r, studies) ==
    /\ runs[r].pc = "fetch"
    /\ LET d == runs[r].data
           upd == UpdateLastCheck(d, clock)
           new == FindNewStudies(d, studies)
       IN IF studies # <<>> /\ FindNewExc(d, studies) # "none"
          THEN /\ runs' = [runs EXCEPT ![r].pc = "raised"]
               /\ UNCHANGED <<file, order>>
          ELSE IF studies = <<>> \/ new = <<>>
          THEN /\ runs' = [runs EXCEPT ![r].data = upd.data,
                                       ![r].pc = IF upd.exc = "none" THEN "done" ELSE "raised"]
               /\ file' = Written(upd)
               /\ order' = AfterCall(r, upd)
          ELSE /\ runs' = [runs EXCEPT ![r].new_studies = new, ![r].pc = "notify"]
               /\ UNCHANGED <<file, order>>
    /\ UNCHANGED <<data, alive, clock, exc, marked, runVars, fetchVars, saving, scrapeVars,
                   smsVars>>

\* the email and SMS blocks: an alert for new_studies went out, the channel
\* failed, or an exception ended the run
RaceNotify(r, outcome) ==
    /\ runs[r].pc = "notify"
    /\ runs' = [runs EXCEPT ![r].alerted = IF outcome = "sent" THEN Ids(runs[r].new_studies)
                                           ELSE @,
                            ![r].pc = IF outcome = "raised" THEN "raised" ELSE "commit"]
    /\ UNCHANGED <<storeVars, runVars, fetchVars, saving, scrapeVars, smsVars, order>>

\* mark_seen(new_studies) and the return
RaceCommit(r) ==
    /\ runs[r].pc = "commit"
    /\ LET m == MarkSeen(runs[r].data, runs[r].new_studies, clock) IN
        /\ runs' = [runs EXCEPT ![r].data = m.data,
                                ![r].marked = IF m.exc = "none" THEN Ids(runs[r].new_studies)
                                              ELSE @,
                                ![r].pc = IF m.exc = "none" THEN "done" ELSE "raised"]
        /\ file' = Written(m)
        /\ order' = AfterCall(r, m)
    /\ UNCHANGED <<data, alive, clock, exc, marked, runVars, fetchVars, saving, scrapeVars,
                   smsVars>>

NextRace ==
    \E r \in Runs :
        \/ RaceStart(r)
        \/ \E studies \in RaceLists : RaceFetch(r, studies)
        \/ \E outcome \in {"sent", "failed", "raised"} : RaceNotify(r, outcome)
        \/ RaceCommit(r)

SpecRace == Init /\ [][NextRace]_vars

----------------------------------------------------------------------------
(* Properties *)

IsAlert(e) == e.channel \in {"email", "sms"}

ResetBetween(a, b) ==
    \E r \in events : r.channel = "reset" /\ a.run < r.run /\ r.run < b.run

Terminated == pc \in {"done", "raised"}

FoundNewInRealRun ==
    /\ Terminated
    /\ cfg.command = "check"
    /\ ~cfg.dry_run
    /\ new_studies # <<>>

EmailConfigured == cfg.email_recipients > 0 /\ cfg.smtp_username
SmsConfigured == cfg.sms_recipients > 0 /\ cfg.account_sid

\* C1: an identity included in an alert that one check run delivered is in no
\* alert that a later run delivers, unless a reset lies between the two runs.
C1_NeverReAlert ==
    \A a, b \in events :
        (IsAlert(a) /\ IsAlert(b) /\ a.run < b.run /\ ~ResetBetween(a, b))
            => a.ids \cap b.ids = {}

\* C2: every study handed to a mark_seen call that returned is reported not new
\* by the same instance and by every instance constructed later on the same
\* path, as long as clear() has not been called.
C2_MarkedStaySeen ==
    alive => \A s \in StudyPool : UniqueId(s) \in MarkedIds => ~IsNew(data, s)

\* a later instance holds identities marked by an earlier one and by itself
C2_Witness ==
    /\ alive
    /\ marked.old # {}
    /\ marked.cur # {}
    /\ marked.cur \cap marked.old = {}
    /\ \A s \in StudyPool : UniqueId(s) \in MarkedIds => ~IsNew(data, s)

\* C3: a check run that is not a dry run and found new studies executes
\* mark_seen(new_studies) whatever happens in the email and SMS channels.
C3_FailuresNeverBlockCommit == FoundNewInRealRun => "mark_seen" \in did

\* C4: with both channels configured, a check run that is not a dry run and
\* found new studies attempts both sends, whatever the other channel did.
C4_ChannelsIndependent ==
    (FoundNewInRealRun /\ EmailConfigured /\ SmsConfigured)
        => {"email", "sms"} \subseteq did

\* C5: whatever the storage file holds, constructing StudyStorage and calling
\* its operations never raises, and the instance holds a well-formed state
\* (malformed content having been replaced by the empty state).
C5_StorageNeverRaises ==
    /\ exc = "none"
    /\ alive => (data.shape = "dict" /\ data.hasSeen)

\* C6: no step other than clear() removes an identity from the persisted seen map.
C6_OnlyClearRemoves ==
    [][ClearCall \/ PersistedIds(file) \subseteq PersistedIds(file')]_vars

\* an instance of a later process has persisted a newer last_check over
\* identities that an earlier process wrote
C6_Witness ==
    /\ alive
    /\ marked.old # {}
    /\ marked.old \subseteq PersistedIds(file)
    /\ \E id \in PersistedIds(file) : file.doc.seen[id].first_seen < file.doc.last_check

\* C7: after a crash during _save of a store whose file held seen identities,
\* the file holds the complete previous state or the complete new state, and
\* the next load does not find an empty history.
C7_CrashLeavesOldOrNew ==
    (saving.phase = "crashed" /\ PersistedIds(saving.before) # {})
        => /\ file \in {saving.before, saving.after}
           /\ PersistedIds(saving.before) \cap PersistedIds(saving.after)
                  \subseteq DOMAIN Load(file).data.seen

\* C8: every check run that returns has persisted a last_check taken during
\* that run.
C8_EveryRunStampsLastCheck ==
    (pc = "done" /\ cfg.command = "check")
        => (file.kind = "json" /\ file.doc.last_check = clock /\ data.last_check = clock)

Failed(t) == {i \in 1..Len(t) : t[i] = "RequestException"}

\* C9: _fetch_page returns None after exactly max_retries GETs when all of them
\* fail, and returns the text of the first successful GET, number k, after
\* exactly k GETs.
C9_AttemptsAndResult ==
    fpc = "returned" =>
        IF Failed(tries) = 1..Len(tries)
        THEN Len(tries) = max_retries /\ fresult = "None"
        ELSE /\ Len(tries) <= max_retries
             /\ Failed(tries) = 1..(Len(tries) - 1)
             /\ fresult = tries[Len(tries)]

\* three GETs failed with max_retries = 3 and the call returned None
C9_Witness ==
    /\ fpc = "returned"
    /\ max_retries = 3
    /\ Failed(tries) = 1..3
    /\ fresult = "None"

RECURSIVE Sum(_)
Sum(seq) == IF seq = <<>> THEN 0 ELSE Head(seq) + Sum(Tail(seq))

\* the n-th sleep lasts 2^n, and there is one sleep per failed attempt that is
\* not the final one
BackoffSteps ==
    /\ \A n \in 1..Len(sleeps) : sleeps[n] = 2 ^ n
    /\ Len(sleeps) = Cardinality({n \in Failed(tries) : n < max_retries})

Exhausted == fpc = "returned" /\ fresult = "None"

\* C10 as stated: the wait after failed attempt n < max_retries is 2^n, there
\* is no other wait, and full exhaustion waits 2^max_retries - 2 in total.
C10_BackoffTotal ==
    /\ BackoffSteps
    /\ Exhausted => Sum(sleeps) = 2 ^ max_retries - 2

\* C10 amended: the same, the total being 2^max_retries - 2 for
\* max_retries >= 1 and 0 for max_retries = 0.
C10_BackoffTotalFromOne ==
    /\ BackoffSteps
    /\ Exhausted => Sum(sleeps) = (IF max_retries >= 1 THEN 2 ^ max_retries - 2 ELSE 0)

\* exhaustion with max_retries = 3 has slept 2 and then 4
C10_Witness ==
    /\ Exhausted
    /\ max_retries = 3
    /\ sleeps = <<2, 4>>

----------------------------------------------------------------------------
(* Detection, exit codes and reset *)

DryRunStep == cfg'.command = "check" /\ cfg'.dry_run

\* C11: the step of a check run that fetches and calls find_new_studies leaves
\* the seen identities unchanged in memory and in the file, and no step of a
\* dry run changes the persisted seen identities, loads anything else into
\* memory, sends an email or an SMS, or calls mark_seen, whatever was fetched.
C11_DetectionNeverCommits ==
    [][/\ (\E studies \in FetchedLists : CheckFetch(studies)) =>
            /\ DOMAIN data'.seen = DOMAIN data.seen
            /\ PersistedIds(file') = PersistedIds(file)
       /\ DryRunStep =>
            /\ PersistedIds(file') = PersistedIds(file)
            /\ alive' => DOMAIN data'.seen = PersistedIds(file)
            /\ events' = events
            /\ did' \cap {"email", "sms", "mark_seen"} = {}]_vars

\* a dry run found new studies over a store that already holds identities
C11_Witness ==
    /\ pc = "done"
    /\ cfg.command = "check"
    /\ cfg.dry_run
    /\ new_studies # <<>>
    /\ PersistedIds(file) # {}
    /\ DOMAIN data.seen = PersistedIds(file)

\* the status the process of a check run ends with: the value cmd_check
\* returned, handed to sys.exit, or 1 when the interpreter ends on an
\* exception nobody caught
ExitStatus == IF pc = "raised" THEN 1 ELSE exit_code

FetchedNothing == "fetch" \in did /\ all_studies = <<>>

ChannelFailed == did \cap {"email_failed", "sms_failed"} # {}

ExitCodeRule ==
    /\ ExitStatus = 1 <=> FetchedNothing
    /\ ExitStatus = 2 <=> (new_studies # <<>> /\ ~cfg.dry_run /\ ChannelFailed)
    /\ ExitStatus \in {0, 1, 2}

\* C12: a check run that has ended has exit code 1 exactly when the fetch
\* produced zero studies, 2 exactly when it found new studies outside a dry run
\* and a channel's send failed to deliver, and 0 in every other case.
C12_ExitCodes == (Terminated /\ cfg.command = "check") => ExitCodeRule

\* C13: in the state clear() leaves, the instance that was cleared and every
\* instance constructed from the file report seen_count 0, no last_check and
\* every study seen before as new, and the file holds the empty state.
C13_ClearEmptiesStore ==
    marked.wiped # {} =>
        /\ file = Dump(EmptyState)
        /\ Load(file).exc = "none"
        /\ alive =>
            /\ SeenCount(data) = 0
            /\ LastCheck(data) = None
            /\ \A s \in StorePool : UniqueId(s) \in marked.wiped => IsNew(data, s)
            /\ \A studies \in StudyLists : FindNewStudies(data, studies) = studies

\* an instance in the state a clear() of a store with a history left
C13_Witness ==
    /\ alive
    /\ marked.wiped # {}
    /\ data = EmptyState
    /\ FindNewExc(data, <<StudyA>>) = "none"

----------------------------------------------------------------------------
(* Identity *)

\* C14: two studies with the same (year_type_id, name, url) have the same
\* unique_id whatever their details and label are, and once one of them has
\* been marked seen the other is not new.
C14_IdentityFromKey ==
    /\ \A s \in StudyUniverse \cup StorePool : \A v \in Versions :
            /\ Key(Rescraped(s, v)) = Key(s)
            /\ UniqueId(Rescraped(s, v)) = UniqueId(s)
    /\ alive => \A s, t \in StorePool :
                    (Key(s) = Key(t) /\ UniqueId(s) \in MarkedIds) => ~IsNew(data, t)

\* StudyA2 was marked seen, and StudyA, which differs in label and details, is not new
C14_Witness ==
    /\ alive
    /\ data.hasSeen
    /\ UniqueId(StudyA2) \in DOMAIN data.seen
    /\ data.seen[UniqueId(StudyA2)].study = ToDict(StudyA2)
    /\ StudyA # StudyA2
    /\ ~IsNew(data, StudyA)

\* C15: a study that differs in name, url or category id from every study
\* marked seen has an identity that is not in the seen map (it is new), also
\* when names and urls hold the ':' separator.
C15_DistinctKeysDistinctIds ==
    (alive /\ data.hasSeen) =>
        \A id \in DOMAIN data.seen : \A t \in StudyUniverse \cup StorePool :
            Key(t) # Key(data.seen[id].study) => (UniqueId(t) # id /\ IsNew(data, t))

----------------------------------------------------------------------------
(* find_new_studies and mark_seen *)

\* the positions of the studies of a list whose identity is not in the seen map
NewPositions(d, studies) == {i \in 1..Len(studies) : UniqueId(studies[i]) \notin DOMAIN d.seen}

\* r holds the elements of studies at the positions pos, in their order
SelectsInOrder(r, studies, pos) ==
    /\ Len(r) = Cardinality(pos)
    /\ \A i \in pos : r[Cardinality({j \in pos : j <= i})] = studies[i]

\* C16: on a store with a seen map, find_new_studies(L) returns the elements of
\* L whose identity is not in the map, each as often as L holds it and in the
\* order of L; it leaves _data and the file as they were, and a second call
\* returns the same list.
C16_FindNewIsPureFilter ==
    (alive /\ data.hasSeen) =>
        \A studies \in StudyLists :
            LET r == FindNew(data, studies) IN
            /\ r.exc = "none"
            /\ SelectsInOrder(r.ret, studies, NewPositions(data, studies))
            /\ r.data = data
            /\ Written(r) = file
            /\ FindNew(r.data, studies).ret = r.ret

\* a store that holds StudyC only: a list with StudyC loses it, a list with
\* the same identity twice comes back whole
C16_Witness ==
    /\ alive
    /\ data.hasSeen
    /\ DOMAIN data.seen = {UniqueId(StudyC)}
    /\ FindNew(data, <<StudyA, StudyC>>).ret = <<StudyA>>
    /\ FindNew(data, <<StudyA2, StudyA>>).ret = <<StudyA2, StudyA>>

\* a store with a seen map that holds nothing
EmptyStore == alive /\ data.hasSeen /\ DOMAIN data.seen = {}

\* find_new_studies(studies) on the state a step leaves, in the instance and
\* in an instance constructed from the file, finds nothing
NothingNewAfter(studies) ==
    /\ FindNew(data', studies).ret = <<>>
    /\ Load(file').exc = "none"
    /\ FindNew(Load(file').data, studies).ret = <<>>

\* C17 as stated: on a store with no seen identity find_new_studies returns
\* all n studies of any list, mark_seen of them leaves seen_count = n, and the
\* same list has nothing new afterwards.
C17_AllNewThenAllSeen ==
    [][EmptyStore =>
        \A studies \in StudyLists :
            /\ FindNew(data, studies).ret = studies
            /\ MarkSeenCall(studies) =>
                 /\ SeenCount(data') = Len(studies)
                 /\ NothingNewAfter(studies)]_vars

\* C17 amended: the same, with seen_count equal to the number of distinct
\* identities among the n studies.
C17_AllNewThenIdsSeen ==
    [][EmptyStore =>
        \A studies \in StudyLists :
            /\ FindNew(data, studies).ret = studies
            /\ MarkSeenCall(studies) =>
                 /\ SeenCount(data') = Cardinality(Ids(studies))
                 /\ NothingNewAfter(studies)]_vars

\* the first mark_seen on an empty store took two studies of two categories
C17_Witness ==
    /\ alive
    /\ marked = [NoneMarked EXCEPT !.cur = Ids(<<StudyA, StudyC>>)]
    /\ SeenCount(data) = 2
    /\ \A id \in DOMAIN data.seen : data.seen[id].first_seen = LastCheck(data)
    /\ FindNew(data, <<StudyA, StudyC>>).ret = <<>>

----------------------------------------------------------------------------
(* fetch_all_studies *)

Fetching == spc \in {"loop", "returned"}

\* the studies of one category in the list fetch_all_studies builds
CategoryStudies(ytid) == SelectSeq(scraped, LAMBDA s : s.year_type_id = ytid)

\* the numbers of the _fetch_page calls made for listing pages: call k + 1 is
\* the call for item k of year_types
ListingCalls == 2..Len(calls)

\* C18: a listing page whose fetch failed contributes no study and every
\* other category is fetched all the same, its studies being in the result;
\* when the index fetch fails and no ids are configured, fetch_all_studies
\* returns [] and has fetched no listing page.
C18_FetchFailureNotFatal ==
    Fetching =>
        /\ calls[1].url = STUDIES_INDEX_URL
        /\ \A k \in ListingCalls :
            /\ calls[k].url = ListUrl(year_types[k - 1][1])
            /\ CategoryStudies(year_types[k - 1][1]) =
                 IF Falsy(calls[k].html) THEN <<>>
                 ELSE FetchStudiesForYearType(calls[k].html, year_types[k - 1][1],
                                              year_types[k - 1][2]).studies
        /\ spc = "returned" => Len(calls) = 1 + Len(year_types)
        /\ (spc = "returned" /\ year_type_ids = <<>> /\ Falsy(calls[1].html)) =>
                (scraped = <<>> /\ Len(calls) = 1)

\* the fetch of the first of two categories failed, the second gave studies
C18_Witness ==
    /\ spc = "returned"
    /\ Len(year_types) = 2
    /\ Falsy(calls[2].html)
    /\ ~Falsy(calls[3].html)
    /\ scraped # <<>>
    /\ CategoryStudies(year_types[1][1]) = <<>>

\* C19: with ids configured, the index page is fetched once, the listing
\* pages fetched are those of the configured ids, each once, whatever
\* discovery returned, and the label of a configured id is the discovered one
\* when discovery has one for the id and "YearType {id}" when not.
C19_ConfiguredIdsOnly ==
    (Fetching /\ year_type_ids # <<>>) =>
        /\ Cardinality({k \in 1..Len(calls) : calls[k].url = STUDIES_INDEX_URL}) = 1
        /\ \A k \in ListingCalls :
            \E i \in 1..Len(year_type_ids) : calls[k].url = ListUrl(year_type_ids[i])
        /\ spc = "returned" =>
            \A i \in 1..Len(year_type_ids) :
                Cardinality({k \in ListingCalls : calls[k].url = ListUrl(year_type_ids[i])}) = 1
        /\ \A j \in 1..Len(year_types) :
            /\ year_types[j][2] = IF year_types[j][1] \in DictKeys(discovered)
                                  THEN DictGet(discovered, year_types[j][1])
                                  ELSE DefaultLabel(year_types[j][1])
            /\ \A i \in 1..Len(scraped) :
                scraped[i].year_type_id = year_types[j][1] =>
                    scraped[i].year_type_label = year_types[j][2]

\* ids 12 and 1 configured in this order, discovery found a label for 1 only
C19_Witness ==
    /\ spc = "returned"
    /\ year_type_ids = <<12, 1>>
    /\ DictKeys(discovered) = {1}
    /\ year_types = << <<12, DefaultLabel(12)>>, <<1, <<"M">> >> >>
    /\ Len(calls) = 3
    /\ scraped # <<>>

\* C20: on a page that was fetched, Strategy 2 runs exactly when Strategy 1
\* gave no study; the result is the tabular studies when there is one, and the
\* studies of the link heuristics when there is none.
C20_SecondStrategyOnlyWhenFirstEmpty ==
    Fetching =>
        \A k \in ListingCalls :
            LET ytid == year_types[k - 1][1]
                label == year_types[k - 1][2]
                tabular == TabularStudies(AllTables(calls[k].html.body), ytid, label)
                linked == LinkStudies(AllLinks(calls[k].html.body), ytid, label)
            IN ~Falsy(calls[k].html) =>
                /\ 1 \in calls[k].strategies
                /\ 2 \in calls[k].strategies <=> tabular = <<>>
                /\ tabular # <<>> => CategoryStudies(ytid) = tabular
                /\ tabular = <<>> => CategoryStudies(ytid) = linked

\* one page whose table rows were all skipped gave the study of a link, and
\* one page with a study row and a study link gave the row only
C20_Witness ==
    /\ spc = "returned"
    /\ Len(calls) = 3
    /\ calls[2].html = PageSkipped
    /\ calls[2].strategies = {1, 2}
    /\ calls[3].html = PageTable
    /\ calls[3].strategies = {1}
    /\ Len(scraped) = 2
    /\ scraped[1].details = <<>>
    /\ scraped[2].details # <<>>

----------------------------------------------------------------------------
(* The link heuristics, the header rows, the SMS body *)

\* word occurs in text, whatever the case of the letters of text
ContainsAnyCase(text, word) ==
    \E i \in 1..(Len(text) - Len(word) + 1) :
        \A j \in 1..Len(word) : Lower(<<text[i + j - 1]>>) = <<word[j]>>

\* the links of a page the claim names: visible text, and a text or a target
\* that looks like a study
StudyLinkPositions(links) ==
    {i \in 1..Len(links) :
        /\ Strip(links[i].text) # <<>>
        /\ \/ \E word \in {StudyWord, GenDash, DisisWord} :
                ContainsAnyCase(Strip(links[i].text), word)
           \/ EndsWith(links[i].href, DotPdf)
           \/ Contains(links[i].href, DocumentsPath)}

\* C21: for a fetched page without table elements, the studies of the page
\* are, in the order of the links, one per link that has visible text and
\* whose text holds "study", "gen-" or "disis" in any case or whose href ends
\* in ".pdf" or holds "/documents/"; the study has the text of the link as
\* name, no details and the category id asked for; no other link gives one.
C21_LinkHeuristics ==
    Fetching =>
        \A k \in ListingCalls :
            LET ytid == year_types[k - 1][1]
                links == AllLinks(calls[k].html.body)
                pos == StudyLinkPositions(links)
                got == CategoryStudies(ytid)
            IN (~Falsy(calls[k].html) /\ AllTables(calls[k].html.body) = <<>>) =>
                /\ Len(got) = Cardinality(pos)
                /\ \A i \in pos :
                    LET s == got[Cardinality({j \in pos : j <= i})]
                    IN /\ s.name = Strip(links[i].text)
                       /\ s.details = <<>>
                       /\ s.year_type_id = ytid

\* a page of five links without table gave the three studies its links stand for
C21_Witness ==
    /\ spc = "returned"
    /\ Len(calls) = 2
    /\ calls[2].html = PageLinks
    /\ Len(scraped) = 3
    /\ scraped[1].name = <<"D", "I", "S", "I", "S">>
    /\ scraped[2].name = <<"M", "a", "p">>
    /\ scraped[3].url = BASE_URL \o DocumentsPath \o <<"x">>

\* what the body for n studies says after "posted: ": the first three names and
\* the count of the others
Mention(studies) ==
    LET n == Len(studies)
        names == [i \in 1..3 |-> studies[i].name]
    IN names[1] \o <<",", " ">> \o names[2] \o <<",", " ">> \o names[3]
       \o <<" ", "(", "+">> \o IntStr(n - 3) \o <<" ", "m", "o", "r", "e", ")">>

MentionStart(studies) == Len(ManyAlert) + Len(IntStr(Len(studies))) + Len(ManyPosted) + 1

HasAt(text, pos, part) ==
    /\ pos + Len(part) - 1 <= Len(text)
    /\ SubSeq(text, pos, pos + Len(part) - 1) = part

SmsBuilt == sms_body # <<>>
Uncut == Len(FullBody(new_studies)) <= SmsLimit

\* C22 as stated: for every list of four or more studies, whatever the length
\* of the names, the body names the first three studies and then "(+{n-3} more)",
\* and every body has at most 1600 characters.
C22_SmsBodyAsClaimed ==
    SmsBuilt =>
        /\ Len(sms_body) <= SmsLimit
        /\ Len(new_studies) >= 4 =>
               HasAt(sms_body, MentionStart(new_studies), Mention(new_studies))

\* C22: every body has at most 1600 characters, a longer one being cut to its
\* first 1597 characters and "..."; for a list of four or more studies whose
\* body needs no cut, the body is the header, the first three names, then
\* "(+{n-3} more)" and the closing link, and nothing else.
C22_SmsBodyWithinLimit ==
    SmsBuilt =>
        /\ Len(sms_body) <= SmsLimit
        /\ ~Uncut =>
               /\ Len(sms_body) = SmsLimit
               /\ SubSeq(sms_body, 1, SmsKept) = SubSeq(FullBody(new_studies), 1, SmsKept)
               /\ SubSeq(sms_body, SmsKept + 1, SmsLimit) = <<".", ".", ".">>
        /\ (Len(new_studies) >= 4 /\ Uncut) =>
               sms_body = ManyAlert \o IntStr(Len(new_studies)) \o ManyPosted
                          \o Mention(new_studies) \o ManyViewAll

\* five studies, one of them with the long name, in a body that needs no cut
C22_Witness ==
    /\ SmsBuilt
    /\ Len(new_studies) = 5
    /\ new_studies[2].name = LongName
    /\ Uncut
    /\ HasAt(sms_body, MentionStart(new_studies), Mention(new_studies))

\* four studies whose body was cut
C22_CutWitness ==
    /\ SmsBuilt
    /\ Len(new_studies) = 4
    /\ ~Uncut
    /\ Len(sms_body) = SmsLimit

----------------------------------------------------------------------------
(* The file and the state in memory *)

Mutation ==
    \/ UpdateLastCheckCall
    \/ ClearCall
    \/ \E studies \in StudyLists : MarkSeenCall(studies)

\* a query hands back the _data it was given (the data fields of IsNewCalled,
\* FindNew and Property), which is tested first
Query ==
    /\ data' = data
    /\ \/ PropertyRead
       \/ \E s \in StorePool : IsNewCall(s)
       \/ \E studies \in StudyLists : FindNewCall(studies)

Returned == exc' = "none"

\* C23: when mark_seen, update_last_check or clear returns, the file holds the
\* state in memory; is_new, find_new_studies, seen_count and last_check leave
\* the file as it was.  Stated from the result: a step that returns with a file
\* that differs from the state in memory is no step of the first three, and a
\* step that changes the file is no step of the other four.
C23_FileMirrorsMemory ==
    [][/\ (Returned /\ file' # Dump(data')) => ~Mutation
       /\ file' # file => ~Query]_vars

\* mark_seen has returned in an instance built on no file, and find_new_studies
\* was called afterwards
C23_Witness ==
    /\ alive
    /\ exc = "none"
    /\ marked.cur # {}
    /\ file = Dump(data)
    /\ SeenCount(data) = 2

----------------------------------------------------------------------------
(* Two overlapping runs *)

Saves == SelectSeq(order, LAMBDA e : e[2] = "save")

LastSaver == IF Saves = <<>> THEN 0 ELSE Saves[Len(Saves)][1]

\* both runs read the file before either wrote it
BothLoadedFirst ==
    /\ Len(order) >= 2
    /\ {order[1], order[2]} = {Loaded(1), Loaded(2)}

\* C24: nothing keeps two runs apart.  Each run decides from the _data it
\* loaded, so a study absent from the file when both loaded is new to both;
\* and each save writes the saving run's own _data over the file, so the file
\* holds only the identities of the run that saved last.
C24_LastSaveWins ==
    /\ \A r \in Runs :
          runs[r].pc \in {"notify", "commit"} =>
              \A i \in 1..Len(runs[r].new_studies) : IsNew(runs[r].data, runs[r].new_studies[i])
    /\ \A r \in Runs : LastSaver = r => file = Dump(runs[r].data)

\* the interleaving of the claim: both runs loaded before either saved, both
\* alerted on one study, and an identity one run marked seen is not in the file
C24_Witness ==
    /\ BothLoadedFirst
    /\ \A r \in Runs : runs[r].pc = "done"
    /\ runs[1].alerted \cap runs[2].alerted # {}
    /\ \E r \in Runs : runs[r].marked \ PersistedIds(file) # {}

----------------------------------------------------------------------------
(* The seen map between resets *)

\* C25: between resets the seen map only grows: no call of mark_seen or
\* update_last_check changes the first_seen or the record of an identity that
\* is already in the map, a mark_seen of an already-seen study included.
C25_SeenAppendOnly ==
    [][(alive /\ alive' /\ ~ClearCall) =>
          \A id \in DOMAIN data.seen :
              id \in DOMAIN data'.seen /\ data'.seen[id] = data.seen[id]]_vars

----------------------------------------------------------------------------
(* The header rows of a table *)

\* the number of the first row of rows that has a th cell, 0 when there is none
FirstHeader(rows) ==
    IF \E h \in 1..Len(rows) : IsHeaderRow(rows[h])
    THEN CHOOSE h \in 1..Len(rows) :
             IsHeaderRow(rows[h]) /\ \A g \in 1..(h - 1) : ~IsHeaderRow(rows[g])
    ELSE 0

RECURSIVE RowsStudies(_, _, _, _)
RowsStudies(rows, headers, ytid, label) ==
    IF rows = <<>> THEN <<>>
    ELSE RowStudies(Head(rows), headers, ytid, label)
         \o RowsStudies(Tail(rows), headers, ytid, label)

\* the studies of a table when the names of its first header row are the
\* column names of every row after it, and each of those rows with a cell and
\* a name gives one study
FirstHeaderStudies(rows, ytid, label) ==
    LET h == FirstHeader(rows)
    IN IF h = 0 THEN RowsStudies(rows, <<>>, ytid, label)
       ELSE RowsStudies(SubSeq(rows, 1, h - 1), <<>>, ytid, label)
            \o RowsStudies(SubSeq(rows, h + 1, Len(rows)),
                           [i \in 1..Len(rows[h]) |-> Strip(rows[h][i].text)], ytid, label)

RECURSIVE FirstHeaderTabular(_, _, _)
FirstHeaderTabular(tables, ytid, label) ==
    IF tables = <<>> THEN <<>>
    ELSE FirstHeaderStudies(Head(tables).rows, ytid, label)
         \o FirstHeaderTabular(Tail(tables), ytid, label)

\* C26: in the tabular tier the column names of every data row of a table are
\* those of the table's first header row, and every row after that header with
\* a cell and a non-empty name gives exactly one Study.
C26_FirstHeaderNamesColumns ==
    Fetching =>
        \A k \in ListingCalls :
            LET ytid == year_types[k - 1][1]
                label == year_types[k - 1][2]
                claimed == IF Falsy(calls[k].html) THEN <<>>
                           ELSE FirstHeaderTabular(AllTables(calls[k].html.body), ytid, label)
            IN claimed # <<>> => CategoryStudies(ytid) = claimed

----------------------------------------------------------------------------
(* A channel with recipients and no credentials *)

RealRunWithNew ==
    /\ pc = "done"
    /\ cfg.command = "check"
    /\ ~cfg.dry_run
    /\ new_studies # <<>>

EmailSkipped == cfg.email_recipients > 0 /\ ~cfg.smtp_username
SmsSkipped == cfg.sms_recipients > 0 /\ ~cfg.account_sid

============================================================================
